---- MODULE Spec2Model ----
(***************************************************************************)
(* Model of the interaction logic of the entity annotation tool            *)
(* (src/tf/browser/ner/static/tool.js).                                    *)
(*                                                                         *)
(* The state is the part of the page the handlers read and write: the      *)
(* hidden form fields, the closure variables of tokenControls, the         *)
(* st / origst / occurs attributes of the scope and modify widgets, and    *)
(* the form object that storeForm keeps in localStorage.                   *)
(* One action models one event handler, run to completion.  A behaviour    *)
(* is the life of one page: a form submission ends it (the next page is    *)
(* another initial state).                                                 *)
(*                                                                         *)
(* Text fields that hold token numbers are sequences of digit characters;  *)
(* ParseInt and ToStr convert between them and numbers.  Showing and       *)
(* hiding of controls (presentQueryControls, setScope, the find boxes) is  *)
(* not part of the state.                                                  *)
(***************************************************************************)
EXTENDS Integers, Sequences, FiniteSets, TLC

\* Token numbers on the page are 0..MaxToken.
MaxToken == 7
\* Number of end tokens (span[te]) on the page.
NEndTokens == 2
\* Number of features in globalThis.features.
NFeat == 2

\* The far-click window of the sentences click handler.
FarWindow == 5

VARIABLES
  tokenStart,      \* value of #tokenstart (digit string)
  tokenEnd,        \* value of #tokenend (digit string)
  activeEntity,    \* value of #activeentity
  featActive,      \* values of #<feat>_active
  featSelect,      \* values of #<feat>_select
  tokenRange,      \* closure variable tokenRange: <<>> or <<start, end>>
  upToDate,        \* closure variable upToDate
  endSt,           \* st attribute of each span[te]
  scopeShown,      \* what updateScope last wrote on #selectall / #selectnone
  excludedTokens,  \* value of #excludedtokens
  submitted,       \* the form has been submitted: the page is being replaced
  occurs,          \* occurs attribute of each candidate value span
  spanSt,          \* st attribute of each candidate value span
  spanOrigSt,      \* origst attribute of each candidate value span
  inpSt,           \* st attribute of each free-text input
  inpOrigSt,       \* origst attribute of each free-text input
  inpVal,          \* current text of each free-text input
  inpOrigVal,      \* origval attribute of each free-text input
  go,              \* classes and label of #modifygo
  goData,          \* value of #modifydata
  feedback,        \* content of #modfeedback
  annoseth,        \* value of #annoseth
  duannoseth,      \* value of #duannoseth
  rannoseth,       \* value of #rannoseth
  dannoseth,       \* value of #dannoseth
  formStore,       \* what storeForm last wrote to localStorage
  last             \* the event handled last, with what it was applied to

selVars == <<tokenStart, tokenEnd, activeEntity, featActive, featSelect,
             tokenRange, upToDate, endSt, scopeShown>>
modVars == <<occurs, spanSt, spanOrigSt, inpSt, inpOrigSt, inpVal, inpOrigVal,
             go, goData, feedback>>
annoVars == <<annoseth, duannoseth, rannoseth, dannoseth, formStore>>
vars == <<selVars, modVars, annoVars, excludedTokens, submitted, last>>

----------------------------------------------------------------------------
(* Numbers as text *)

Digits == <<"0", "1", "2", "3", "4", "5", "6", "7", "8", "9">>

DigitChar(d) == Digits[d + 1]

DigitVal(c) == CHOOSE d \in 0..9 : Digits[d + 1] = c

\* `${n}` for a non-negative integer: its decimal digits.
RECURSIVE ToStr(_)
ToStr(n) == IF n < 10 THEN <<DigitChar(n)>>
            ELSE Append(ToStr(n \div 10), DigitChar(n % 10))

\* parseInt on a string of decimal digits.
RECURSIVE ParseInt(_)
ParseInt(s) == IF Len(s) = 1 THEN DigitVal(s[1])
               ELSE 10 * ParseInt(SubSeq(s, 1, Len(s) - 1)) + DigitVal(s[Len(s)])

\* The same digits as one string (used in names).
RECURSIVE Flat(_)
Flat(s) == IF s = <<>> THEN "" ELSE s[1] \o Flat(Tail(s))

----------------------------------------------------------------------------
(* The page *)

Tokens == 0..MaxToken

FieldVals == {<<>>} \cup {ToStr(n) : n \in Tokens}

EndTokens == 1..NEndTokens

\* globalThis.features: the ordered list of feature names.
features == [i \in 1..NFeat |-> "f" \o Flat(ToStr(i))]

Feats == {features[i] : i \in 1..NFeat}

\* The entity entries p.e of #entities, with the attributes the handlers read.
entities ==
  [e1 |-> [tstart |-> ToStr(2), tend |-> ToStr(4), val |-> "PER"]]

EntityNames == DOMAIN entities

----------------------------------------------------------------------------
(* tokenControls: the selection interval *)

\* tokenInit without the swap of reversed bounds.
tokenInitNoSwap(tokenStartVal, tokenEndVal) ==
  IF tokenStartVal # <<>> /\ tokenEndVal # <<>>
  THEN <<ParseInt(tokenStartVal), ParseInt(tokenEndVal)>>
  ELSE <<>>

\* tokenInit: the interval from the stored fields, swapped when reversed.
tokenInit(tokenStartVal, tokenEndVal) ==
  LET range == IF tokenStartVal # <<>> /\ tokenEndVal # <<>>
               THEN <<ParseInt(tokenStartVal), ParseInt(tokenEndVal)>>
               ELSE <<>>
  IN  IF Len(range) # 0 /\ range[1] > range[2]
      THEN <<range[2], range[1]>>
      ELSE range

\* Far test that forgets the clicks beyond the end.
IsFarOnlyBefore(range, tWordInt) == tWordInt < range[1] - FarWindow

\* Far test that counts the clicks exactly FarWindow tokens outside as far.
IsFarInclusive(range, tWordInt) ==
  tWordInt <= range[1] - FarWindow \/ tWordInt >= range[2] + FarWindow

\* Far test measured from the opposite boundaries.
IsFarSwapped(range, tWordInt) ==
  tWordInt < range[2] - FarWindow \/ tWordInt > range[1] + FarWindow

\* A click far outside the interval.
IsFar(range, tWordInt) ==
  tWordInt < range[1] - FarWindow \/ tWordInt > range[2] + FarWindow

\* Click rule whose tie between the two distances moves the start.
ClickRangeTieStart(range, tWordInt) ==
  IF Len(range) = 0 THEN <<tWordInt, tWordInt>>
  ELSE IF IsFar(range, tWordInt) THEN <<tWordInt, tWordInt>>
  ELSE IF tWordInt <= range[1] THEN <<tWordInt, range[2]>>
  ELSE IF tWordInt >= range[2] THEN <<range[1], tWordInt>>
  ELSE IF range[2] - tWordInt < tWordInt - range[1] THEN <<range[1], tWordInt>>
  ELSE <<tWordInt, range[2]>>

\* The interval after a click on token tWordInt (sentences click handler).
ClickRange(range, tWordInt) ==
  IF Len(range) = 0 THEN <<tWordInt, tWordInt>>
  ELSE IF Len(range) = 2 THEN
    LET start == range[1]
        end   == range[2]
    IN  IF IsFar(range, tWordInt) THEN <<tWordInt, tWordInt>>
        ELSE IF tWordInt <= start THEN <<tWordInt, range[2]>>
        ELSE IF tWordInt >= end THEN <<range[1], tWordInt>>
        ELSE IF end - tWordInt <= tWordInt - start THEN <<range[1], tWordInt>>
        ELSE <<tWordInt, range[2]>>
  ELSE range

----------------------------------------------------------------------------
(* updateScope and the form submit handler *)

\* updateScope that selects span[te][st="x"] only as the excluded end tokens.
updateScopeMarkedOnly(marks) ==
  LET nx == Cardinality({te \in EndTokens : marks[te] = "x"})
      nv == Cardinality({te \in EndTokens : marks[te] = "v"})
      nt == nx + nv
      onlyX == nx # 0 /\ nv = 0
      onlyV == nv # 0 /\ nx = 0
  IN  [selectNone |-> [active |-> onlyX, n |-> ToStr(nx),
                       lab |-> IF onlyX THEN <<" (all)">> ELSE <<" of ", ToStr(nt)>>],
       selectAll  |-> [active |-> onlyV, n |-> ToStr(nv),
                       lab |-> IF onlyV THEN <<" (all)">> ELSE <<" of ", ToStr(nt)>>]]

\* What updateScope writes, from the marks of the end tokens.
updateScope(marks) ==
  LET nx == Cardinality({te \in EndTokens : marks[te] \in {"x", ""}})
      nv == Cardinality({te \in EndTokens : marks[te] = "v"})
      nt == nx + nv
      onlyX == nx # 0 /\ nv = 0
      onlyV == nv # 0 /\ nx = 0
  IN  [selectNone |-> [active |-> onlyX, n |-> ToStr(nx),
                       lab |-> IF onlyX THEN <<" (all)">> ELSE <<" of ", ToStr(nt)>>],
       selectAll  |-> [active |-> onlyV, n |-> ToStr(nv),
                       lab |-> IF onlyV THEN <<" (all)">> ELSE <<" of ", ToStr(nt)>>]]

\* The te attributes of the end tokens marked "x", in page order: the list the
\* submit handler joins with "," into #excludedtokens.
RECURSIVE exclUpTo(_, _)
exclUpTo(marks, k) ==
  IF k = 0 THEN <<>>
  ELSE IF marks[k] = "x" THEN Append(exclUpTo(marks, k - 1), ToStr(k))
  ELSE exclUpTo(marks, k - 1)

excl(marks) == exclUpTo(marks, NEndTokens)

----------------------------------------------------------------------------
(* modifyControls: staging of feature values *)

\* The candidate value spans of one feature widget, in page order: each widget
\* holds one candidate value and one free-text input.
spans == <<1>>

SpanIdx == {spans[k] : k \in 1..Len(spans)}

\* The val attribute of the span at position i.
spanVal(i) == "v" \o Flat(ToStr(i))

\* Texts a user types into a free-text input.
Texts == {"", "t"}

\* The original states the page gives a candidate value: no delete state for a
\* value that does not occur on the selection.
OrigStates(occ) == IF occ = "x" THEN {"x", "plus"} ELSE {"x", "plus", "minus"}

\* The original state and text the page gives a free-text input: empty.
InputOrigs == {<<"x", "">>}

\* newStatus with the noMinus test inverted.
newStatusInverted(occ, currentStatus) ==
  IF occ # "x"
  THEN (IF currentStatus = "plus" THEN "x" ELSE "plus")
  ELSE IF currentStatus = "plus" THEN "minus"
  ELSE IF currentStatus = "minus" THEN "x"
  ELSE "plus"

\* newStatus that ignores the occurs attribute.
newStatusAlwaysCycle(occ, currentStatus) ==
  IF currentStatus = "plus" THEN "minus"
  ELSE IF currentStatus = "minus" THEN "x"
  ELSE "plus"

\* control click handler: the next st of a candidate value.
newStatus(occ, currentStatus) ==
  LET noMinus == occ = "x"
  IN  IF noMinus
      THEN (IF currentStatus = "plus" THEN "x" ELSE "plus")
      ELSE IF currentStatus = "plus" THEN "minus"
      ELSE IF currentStatus = "minus" THEN "x"
      ELSE "plus"

\* keyupStatus that marks an input whatever it holds.
keyupStatusAlwaysPlus(val) == "plus"

\* input keyup handler: the st of a free-text input holding val.
keyupStatus(val) == IF val = "" THEN "x" ELSE "plus"

\* input click handler: the st of a free-text input holding val.
inputClickStatus(val, currentStatus) ==
  IF val = "" THEN "x"
  ELSE IF currentStatus = "x" THEN "plus" ELSE "x"

\* makeGoData, the loop over the spans of one widget: the values with state st,
\* in page order.
RECURSIVE spanValsUpTo(_, _, _)
spanValsUpTo(sSt, st, k) ==
  IF k = 0 THEN <<>>
  ELSE IF sSt[spans[k]] = st
       THEN Append(spanValsUpTo(sSt, st, k - 1), spanVal(spans[k]))
  ELSE spanValsUpTo(sSt, st, k - 1)

theseDels(sSt) == spanValsUpTo(sSt, "minus", Len(spans))

\* theseAdds that forgets the free-text input.
theseAddsSpansOnly(sSt, iSt, iVal) == spanValsUpTo(sSt, "plus", Len(spans))

theseAdds(sSt, iSt, iVal) ==
  spanValsUpTo(sSt, "plus", Len(spans)) \o (IF iSt = "plus" THEN <<iVal>> ELSE <<>>)

\* makeGoData, the loop over the features: the three lists it collects.
RECURSIVE freeValsUpTo(_, _, _)
freeValsUpTo(iSt, iVal, k) ==
  IF k = 0 THEN <<>>
  ELSE freeValsUpTo(iSt, iVal, k - 1)
       \o (IF iSt[features[k]] = "plus" THEN <<iVal[features[k]]>> ELSE <<>>)

collect(sSt, iSt, iVal) ==
  [deletions |-> [k \in 1..NFeat |-> theseDels(sSt[features[k]])],
   additions |-> [k \in 1..NFeat |->
                    theseAdds(sSt[features[k]], iSt[features[k]], iVal[features[k]])],
   freeVals  |-> freeValsUpTo(iSt, iVal, NFeat)]

\* Array.prototype.join on a list of strings.
RECURSIVE join(_, _)
join(strs, sep) ==
  IF Len(strs) = 0 THEN ""
  ELSE IF Len(strs) = 1 THEN strs[1]
  ELSE strs[1] \o sep \o join(Tail(strs), sep)

\* An array of strings as text: its elements joined by ",".
arrayText(arr) == join(arr, ",")

ReportHead == "provide at least one green value for "

\* additions.filter(x => x.length == 0)
missingAdditions(additions) == SelectSeq(additions, LAMBDA x : Len(x) = 0)

\* The report of makeGoData when some but not all features have additions.
report(additions) ==
  LET missing == missingAdditions(additions)
  IN  ReportHead \o join([k \in 1..Len(missing) |-> arrayText(missing[k])], " and ")

\* makeGoData: what it returns and what it leaves on #modifygo.
makeGoData(sSt, iSt, iVal, goNow) ==
  LET lists == collect(sSt, iSt, iVal)
      additions == lists.additions
      deletions == lists.deletions
      anyHasAdditions  == \E k \in 1..NFeat : Len(additions[k]) > 0
      allHaveAdditions == \A k \in 1..NFeat : Len(additions[k]) > 0
      anyHasDeletions  == \E k \in 1..NFeat : Len(deletions[k]) > 0
      allOrNothingAdditions == ~anyHasAdditions \/ allHaveAdditions
      actionCls == IF anyHasDeletions /\ anyHasAdditions THEN "repl"
                   ELSE IF anyHasAdditions THEN "add" ELSE "del"
      actionLabel == IF anyHasDeletions /\ anyHasAdditions THEN "delete and add"
                     ELSE IF anyHasAdditions THEN "add" ELSE "delete"
  IN  IF anyHasDeletions \/ anyHasAdditions
      THEN IF allOrNothingAdditions
           THEN [result |-> [kind |-> "data", data |-> lists],
                 go |-> [cls |-> (goNow.cls \ {"disabled"}) \cup {actionCls},
                         html |-> actionLabel]]
           ELSE [result |-> [kind |-> "report", report |-> report(additions)],
                 go |-> [cls |-> (goNow.cls \cup {"disabled"}) \ {"add", "del", "repl"},
                         html |-> "cannot add"]]
      ELSE [result |-> [kind |-> "empty"],
            go |-> [cls |-> (goNow.cls \cup {"disabled"}) \ {"add", "del", "repl"},
                    html |-> "nothing to do"]]

----------------------------------------------------------------------------
(* annoSetControls and storeForm *)

\* The names of the annotation sets the page offers in #achange.
SetNames == {"a", "b"}

\* What the user answers to prompt(): nothing when cancelling, else one text.
PromptAnswers == {<<>>} \cup {<<n>> : n \in SetNames \cup {""}}

\* suggestName: null (the empty list) when the prompt is cancelled, else the
\* answer.
suggestName(oldName, answer) ==
  LET cancelled == Len(answer) = 0
  IN  IF cancelled THEN <<>> ELSE answer

\* storeForm: the object built from the FormData of the form, for the given
\* values of the four annotation set fields; of the other fields of the form
\* it keeps activeentity.
formObj(a, du, r, d) ==
  [annoseth |-> a, duannoseth |-> du, rannoseth |-> r, dannoseth |-> d,
   activeentity |-> activeEntity]

----------------------------------------------------------------------------
(* Page load *)

\* #modifygo as the page renders it, before makeGoData runs at load.
PageGo == [cls |-> {}, html |-> ""]

NoData == [enc |-> "none"]

\* tokenControls at load, for every content of the stored fields.
LoadTokens ==
  /\ tokenStart \in FieldVals
  /\ tokenEnd \in FieldVals
  /\ activeEntity \in {""} \cup EntityNames
  /\ featActive = [f \in Feats |-> IF activeEntity = "" THEN ""
                                   ELSE entities[activeEntity].val]
  /\ featSelect = featActive
  /\ tokenRange = tokenInit(tokenStart, tokenEnd)
  /\ upToDate = TRUE
  /\ endSt \in [EndTokens -> {"v", "x", ""}]
  /\ scopeShown = updateScope(endSt)

\* A page with no selection and no scope marks.
PlainTokens ==
  /\ tokenStart = <<>>
  /\ tokenEnd = <<>>
  /\ activeEntity = ""
  /\ featActive = [f \in Feats |-> ""]
  /\ featSelect = featActive
  /\ tokenRange = tokenInit(tokenStart, tokenEnd)
  /\ upToDate = TRUE
  /\ endSt = [te \in EndTokens |-> ""]
  /\ scopeShown = updateScope(endSt)

\* The occurs attribute the page gives the candidate value of the k-th feature:
\* the values of the odd features occur on the selection, the others do not.
pageOccurs(k) == IF k % 2 = 1 THEN "v" ELSE "x"

\* modifyControls at load, for every original state of the candidate values.
LoadModify ==
  /\ occurs = [f \in Feats |-> [i \in SpanIdx |->
                 pageOccurs(CHOOSE k \in 1..NFeat : features[k] = f)]]
  /\ spanOrigSt \in [Feats -> [SpanIdx -> {"x", "plus", "minus"}]]
  /\ \A f \in Feats : \A i \in SpanIdx : spanOrigSt[f][i] \in OrigStates(occurs[f][i])
  /\ spanSt = spanOrigSt
  /\ \E orig \in [Feats -> InputOrigs] :
       /\ inpOrigSt = [f \in Feats |-> orig[f][1]]
       /\ inpOrigVal = [f \in Feats |-> orig[f][2]]
  /\ inpSt = inpOrigSt
  /\ inpVal = inpOrigVal
  /\ go = makeGoData(spanSt, inpSt, inpVal, PageGo).go
  /\ goData = NoData
  /\ feedback = ""

\* A page whose widgets hold nothing staged.
PlainModify ==
  /\ occurs = [f \in Feats |-> [i \in SpanIdx |-> "v"]]
  /\ spanOrigSt = [f \in Feats |-> [i \in SpanIdx |-> "x"]]
  /\ spanSt = spanOrigSt
  /\ inpOrigSt = [f \in Feats |-> "x"]
  /\ inpOrigVal = [f \in Feats |-> ""]
  /\ inpSt = inpOrigSt
  /\ inpVal = inpOrigVal
  /\ go = makeGoData(spanSt, inpSt, inpVal, PageGo).go
  /\ goData = NoData
  /\ feedback = ""

LoadRest ==
  /\ excludedTokens = <<>>
  /\ submitted = FALSE
  /\ last = [op |-> "load"]

\* annoSetControls at load, after initForm has stored the form: the page names
\* the current annotation set and the other three fields are empty.
LoadAnnoSet ==
  /\ annoseth \in SetNames
  /\ duannoseth = ""
  /\ rannoseth = ""
  /\ dannoseth = ""
  /\ formStore = formObj(annoseth, duannoseth, rannoseth, dannoseth)

\* A page of the first annotation set.
PlainAnnoSet ==
  /\ annoseth = "a"
  /\ duannoseth = ""
  /\ rannoseth = ""
  /\ dannoseth = ""
  /\ formStore = formObj(annoseth, duannoseth, rannoseth, dannoseth)

\* A page loaded after a click on the entry of the first entity.
EntityTokens ==
  /\ LoadTokens
  /\ activeEntity \in EntityNames
  /\ tokenStart = entities[activeEntity].tstart
  /\ tokenEnd = entities[activeEntity].tend
  /\ endSt = [te \in EndTokens |-> ""]

InitTokens == LoadTokens /\ PlainModify /\ LoadRest /\ PlainAnnoSet

InitModify == PlainTokens /\ LoadModify /\ LoadRest /\ PlainAnnoSet

InitAnnoSet == EntityTokens /\ PlainModify /\ LoadRest /\ LoadAnnoSet

----------------------------------------------------------------------------
(* Handlers of tokenControls and entityControls *)

\* What a click in #sentences hits: the closest span[t], span[te] and
\* span.es[enm], each a list of at most one element.  A token inside an entity
\* span lies within that entity's tokens.
ClickTargets ==
  {c \in [elem1 : {<<>>} \cup {<<t>> : t \in Tokens},
          elem2 : {<<>>} \cup {<<te>> : te \in EndTokens},
          elem3 : {<<>>} \cup {<<e>> : e \in EntityNames}] :
     (Len(c.elem1) # 0 /\ Len(c.elem3) # 0) =>
        /\ c.elem1[1] >= ParseInt(entities[c.elem3[1]].tstart)
        /\ c.elem1[1] <= ParseInt(entities[c.elem3[1]].tend)}

\* form submit handler.
Submit(marks) ==
  /\ excludedTokens' = excl(marks)
  /\ submitted' = TRUE

\* sentences click handler that omits activeEntity.val("") in the token branch.
entityAfterClickKept(c, now) ==
  IF Len(c.elem3) # 0 THEN c.elem3[1] ELSE now

\* sentences click handler: what #activeentity holds when the handler ends.  The
\* token branch empties it, the entity span branch, which runs later, writes
\* the enm of the span.
entityAfterClick(c, now) ==
  IF Len(c.elem3) # 0 THEN c.elem3[1]
  ELSE IF Len(c.elem1) # 0 THEN ""
  ELSE now

\* sentences click handler.
SentencesClick(c) ==
  /\ ~submitted
  /\ LET tWordInt == ParseInt(ToStr(c.elem1[1]))
         range1 == IF Len(c.elem1) # 0 THEN ClickRange(tokenRange, tWordInt)
                   ELSE tokenRange
         marks2 == IF Len(c.elem2) # 0
                   THEN [endSt EXCEPT ![c.elem2[1]] = IF @ = "v" THEN "x" ELSE "v"]
                   ELSE endSt
     IN  /\ tokenRange' = range1
         /\ upToDate' = IF Len(c.elem1) # 0 THEN FALSE ELSE upToDate
         /\ endSt' = marks2
         /\ scopeShown' = IF Len(c.elem2) # 0 THEN updateScope(marks2) ELSE scopeShown
         /\ activeEntity' = entityAfterClick(c, activeEntity)
         /\ IF Len(c.elem3) # 0
            THEN LET ea == c.elem3[1]
                 IN  /\ tokenStart' = entities[ea].tstart
                     /\ tokenEnd' = entities[ea].tend
                     /\ featActive' = [f \in Feats |-> entities[ea].val]
                     /\ featSelect' = [f \in Feats |-> entities[ea].val]
                     /\ Submit(marks2)
            ELSE /\ IF Len(c.elem1) # 0
                    THEN /\ tokenStart' = ToStr(range1[1])
                         /\ tokenEnd' = ToStr(range1[2])
                    ELSE UNCHANGED <<tokenStart, tokenEnd>>
                 /\ UNCHANGED <<featActive, featSelect, excludedTokens, submitted>>
  /\ last' = [op |-> "click", elem1 |-> c.elem1, elem2 |-> c.elem2,
              elem3 |-> c.elem3, before |-> tokenRange, entity |-> activeEntity]
  /\ UNCHANGED annoVars
  /\ UNCHANGED modVars

\* queryClear click handler that also unmarks the end tokens.
QueryClearUnmarks ==
  /\ ~submitted
  /\ tokenRange' = <<>>
  /\ tokenStart' = <<>>
  /\ tokenEnd' = <<>>
  /\ activeEntity' = ""
  /\ featActive' = [f \in Feats |-> ""]
  /\ endSt' = [te \in EndTokens |-> ""]
  /\ scopeShown' = updateScope(endSt')
  /\ last' = [op |-> "queryClear", before |-> tokenRange, entity |-> activeEntity]
  /\ UNCHANGED annoVars
  /\ UNCHANGED <<featSelect, upToDate, excludedTokens, submitted>>
  /\ UNCHANGED modVars

\* queryClear click handler.
QueryClear ==
  /\ ~submitted
  /\ tokenRange' = <<>>
  /\ tokenStart' = <<>>
  /\ tokenEnd' = <<>>
  /\ activeEntity' = ""
  /\ featActive' = [f \in Feats |-> ""]
  /\ last' = [op |-> "queryClear", before |-> tokenRange, entity |-> activeEntity]
  /\ UNCHANGED annoVars
  /\ UNCHANGED <<featSelect, upToDate, endSt, scopeShown, excludedTokens, submitted>>
  /\ UNCHANGED modVars

\* selectAll / selectNone click handlers.
SelectAll ==
  /\ ~submitted
  /\ endSt' = [te \in EndTokens |-> "v"]
  /\ scopeShown' = updateScope(endSt')
  /\ last' = [op |-> "selectAll"]
  /\ UNCHANGED annoVars
  /\ UNCHANGED <<tokenStart, tokenEnd, activeEntity, featActive, featSelect,
                 tokenRange, upToDate, excludedTokens, submitted>>
  /\ UNCHANGED modVars

SelectNone ==
  /\ ~submitted
  /\ endSt' = [te \in EndTokens |-> "x"]
  /\ scopeShown' = updateScope(endSt')
  /\ last' = [op |-> "selectNone"]
  /\ UNCHANGED annoVars
  /\ UNCHANGED <<tokenStart, tokenEnd, activeEntity, featActive, featSelect,
                 tokenRange, upToDate, excludedTokens, submitted>>
  /\ UNCHANGED modVars

\* entitiesDiv click handler, on the entry of entity enm.
EntitiesClick(enm) ==
  /\ ~submitted
  /\ tokenStart' = entities[enm].tstart
  /\ tokenEnd' = entities[enm].tend
  /\ activeEntity' = enm
  /\ featActive' = [f \in Feats |-> entities[enm].val]
  /\ featSelect' = [f \in Feats |-> entities[enm].val]
  /\ Submit(endSt)
  /\ last' = [op |-> "entitiesClick", enm |-> enm]
  /\ UNCHANGED annoVars
  /\ UNCHANGED <<tokenRange, upToDate, endSt, scopeShown>>
  /\ UNCHANGED modVars

NextTokens ==
  \/ \E c \in ClickTargets : SentencesClick(c)
  \/ QueryClear
  \/ SelectAll
  \/ SelectNone
  \/ \E enm \in EntityNames : EntitiesClick(enm)

SpecTokens == InitTokens /\ [][NextTokens]_vars

----------------------------------------------------------------------------
(* Handlers of modifyControls *)

\* control click handler, on the span at position i of the widget of feat.
ControlClick(feat, i) ==
  /\ ~submitted
  /\ spanSt' = [spanSt EXCEPT ![feat][i] = newStatus(occurs[feat][i], @)]
  /\ go' = makeGoData(spanSt', inpSt, inpVal, go).go
  /\ last' = [op |-> "control"]
  /\ UNCHANGED annoVars
  /\ UNCHANGED <<occurs, spanOrigSt, inpSt, inpOrigSt, inpVal, inpOrigVal,
                 goData, feedback>>
  /\ UNCHANGED <<selVars, excludedTokens, submitted>>

\* input keyup handler, on the input of feat, which then holds text.
InputKeyup(feat, text) ==
  /\ ~submitted
  /\ inpVal' = [inpVal EXCEPT ![feat] = text]
  /\ inpSt' = [inpSt EXCEPT ![feat] = keyupStatus(text)]
  /\ go' = makeGoData(spanSt, inpSt', inpVal', go).go
  /\ last' = [op |-> "keyup", feat |-> feat]
  /\ UNCHANGED annoVars
  /\ UNCHANGED <<occurs, spanSt, spanOrigSt, inpOrigSt, inpOrigVal, goData, feedback>>
  /\ UNCHANGED <<selVars, excludedTokens, submitted>>

\* input click handler, on the input of feat.
InputClick(feat) ==
  /\ ~submitted
  /\ inpSt' = [inpSt EXCEPT ![feat] = inputClickStatus(inpVal[feat], @)]
  /\ go' = makeGoData(spanSt, inpSt', inpVal, go).go
  /\ last' = [op |-> "inputClick"]
  /\ UNCHANGED annoVars
  /\ UNCHANGED <<occurs, spanSt, spanOrigSt, inpOrigSt, inpVal, inpOrigVal,
                 goData, feedback>>
  /\ UNCHANGED <<selVars, excludedTokens, submitted>>

\* The widget of feat holds what the page gave it: every st is the origst and
\* the text of the input is the origval.
AtOriginal(feat) ==
  /\ spanSt[feat] = spanOrigSt[feat]
  /\ inpSt[feat] = inpOrigSt[feat]
  /\ inpVal[feat] = inpOrigVal[feat]

\* reset click handler that finds the span[origst] and input[origst] of the
\* whole page instead of those of the widget of the button.
ResetClickAllWidgets(feat) ==
  /\ ~submitted
  /\ spanSt' = spanOrigSt
  /\ inpSt' = inpOrigSt
  /\ inpVal' = inpOrigVal
  /\ last' = [op |-> "reset", feat |-> feat, changed |-> ~AtOriginal(feat)]
  /\ UNCHANGED annoVars
  /\ UNCHANGED <<occurs, spanOrigSt, inpOrigSt, inpOrigVal, go, goData, feedback>>
  /\ UNCHANGED <<selVars, excludedTokens, submitted>>

\* reset click handler that restores the spans and leaves the input alone.
ResetClickSpansOnly(feat) ==
  /\ ~submitted
  /\ spanSt' = [spanSt EXCEPT ![feat] = spanOrigSt[feat]]
  /\ last' = [op |-> "reset", feat |-> feat, changed |-> ~AtOriginal(feat)]
  /\ UNCHANGED annoVars
  /\ UNCHANGED <<occurs, spanOrigSt, inpSt, inpOrigSt, inpVal, inpOrigVal,
                 go, goData, feedback>>
  /\ UNCHANGED <<selVars, excludedTokens, submitted>>

\* reset click handler, on the reset button of the widget of feat.
ResetClick(feat) ==
  /\ ~submitted
  /\ spanSt' = [spanSt EXCEPT ![feat] = spanOrigSt[feat]]
  /\ inpSt' = [inpSt EXCEPT ![feat] = inpOrigSt[feat]]
  /\ inpVal' = [inpVal EXCEPT ![feat] = inpOrigVal[feat]]
  /\ last' = [op |-> "reset", feat |-> feat, changed |-> ~AtOriginal(feat)]
  /\ UNCHANGED annoVars
  /\ UNCHANGED <<occurs, spanOrigSt, inpOrigSt, inpOrigVal, go, goData, feedback>>
  /\ UNCHANGED <<selVars, excludedTokens, submitted>>

\* go click handler.
GoClick ==
  /\ ~submitted
  /\ LET made == makeGoData(spanSt, inpSt, inpVal, go)
     IN  /\ go' = made.go
         /\ IF made.result.kind = "data"
            THEN /\ goData' = [enc |-> "uri-json", data |-> made.result.data]
                 /\ feedback' = ""
                 /\ Submit(endSt)
            ELSE /\ goData' = NoData
                 /\ feedback' = IF made.result.kind = "report"
                                THEN made.result.report ELSE ""
                 /\ UNCHANGED <<excludedTokens, submitted>>
  /\ last' = [op |-> "go"]
  /\ UNCHANGED annoVars
  /\ UNCHANGED <<occurs, spanSt, spanOrigSt, inpSt, inpOrigSt, inpVal, inpOrigVal>>
  /\ UNCHANGED selVars

NextModify ==
  \/ \E feat \in Feats : \E i \in SpanIdx : ControlClick(feat, i)
  \/ \E feat \in Feats : \E text \in Texts : InputKeyup(feat, text)
  \/ \E feat \in Feats : InputClick(feat)
  \/ \E feat \in Feats : ResetClick(feat)
  \/ GoClick

SpecModify == InitModify /\ [][NextModify]_vars

----------------------------------------------------------------------------
(* Handlers of annoSetControls *)

\* storeForm, called when the four annotation set fields hold a, du, r, d.
storeForm(a, du, r, d) == formStore' = formObj(a, du, r, d)

\* aChange change handler, the user choosing newAnnoSet in #achange.
aChange(newAnnoSet) ==
  /\ ~submitted
  /\ LET oldAnnoSet == annoseth
     IN  IF oldAnnoSet = newAnnoSet
         THEN UNCHANGED <<annoseth, formStore, excludedTokens, submitted>>
         ELSE /\ annoseth' = newAnnoSet
              /\ storeForm(newAnnoSet, duannoseth, rannoseth, dannoseth)
              /\ Submit(endSt)
  /\ last' = [op |-> "aChange", cancelled |-> FALSE]
  /\ UNCHANGED <<duannoseth, rannoseth, dannoseth>>
  /\ UNCHANGED <<selVars, modVars>>

\* aNew click handler, the user giving answer to the prompt.
aNew(answer) ==
  /\ ~submitted
  /\ LET newName == suggestName(<<>>, answer)
     IN  IF Len(newName) = 0
         THEN UNCHANGED <<annoseth, formStore>>
         ELSE /\ annoseth' = newName[1]
              /\ storeForm(newName[1], duannoseth, rannoseth, dannoseth)
  /\ last' = [op |-> "aNew", cancelled |-> Len(answer) = 0]
  /\ UNCHANGED <<duannoseth, rannoseth, dannoseth>>
  /\ UNCHANGED <<selVars, modVars, excludedTokens, submitted>>

\* aDup click handler, the user giving answer to the prompt.
aDup(answer) ==
  /\ ~submitted
  /\ LET annoSetName == annoseth
         newName == suggestName(<<annoSetName>>, answer)
     IN  IF Len(newName) = 0
         THEN UNCHANGED <<duannoseth, formStore>>
         ELSE /\ duannoseth' = newName[1]
              /\ storeForm(annoseth, newName[1], rannoseth, dannoseth)
  /\ last' = [op |-> "aDup", cancelled |-> Len(answer) = 0]
  /\ UNCHANGED <<annoseth, rannoseth, dannoseth>>
  /\ UNCHANGED <<selVars, modVars, excludedTokens, submitted>>

\* aRename click handler, the user giving answer to the prompt.
aRename(answer) ==
  /\ ~submitted
  /\ LET annoSetName == annoseth
         newName == suggestName(<<annoSetName>>, answer)
     IN  IF Len(newName) = 0
         THEN UNCHANGED <<rannoseth, formStore>>
         ELSE /\ rannoseth' = newName[1]
              /\ storeForm(annoseth, duannoseth, newName[1], dannoseth)
  /\ last' = [op |-> "aRename", cancelled |-> Len(answer) = 0]
  /\ UNCHANGED <<annoseth, duannoseth, dannoseth>>
  /\ UNCHANGED <<selVars, modVars, excludedTokens, submitted>>

\* aDelete click handler, the user confirming or not.
aDelete(confirmed) ==
  /\ ~submitted
  /\ LET annoSetName == annoseth
     IN  /\ dannoseth' = IF confirmed THEN annoSetName ELSE dannoseth
         /\ storeForm(annoseth, duannoseth, rannoseth, dannoseth')
  /\ last' = [op |-> "aDelete", cancelled |-> ~confirmed]
  /\ UNCHANGED <<annoseth, duannoseth, rannoseth>>
  /\ UNCHANGED <<selVars, modVars, excludedTokens, submitted>>

\* The handlers of annoSetControls, and queryClear, which empties form fields
\* without storing the form.
NextAnnoSet ==
  \/ \E newAnnoSet \in SetNames : aChange(newAnnoSet)
  \/ \E answer \in PromptAnswers : aNew(answer)
  \/ \E answer \in PromptAnswers : aDup(answer)
  \/ \E answer \in PromptAnswers : aRename(answer)
  \/ \E confirmed \in BOOLEAN : aDelete(confirmed)
  \/ QueryClear

SpecAnnoSet == InitAnnoSet /\ [][NextAnnoSet]_vars

----------------------------------------------------------------------------
(* Selection and staging on one page *)

\* A page with no selection, no scope marks and nothing staged, on which the
\* user selects tokens and stages values in any order.
InitPage == PlainTokens /\ PlainModify /\ LoadRest /\ PlainAnnoSet

\* The clicks in #sentences that hit a token and neither an end token nor an
\* entity span.
TokenTargets ==
  {c \in ClickTargets : Len(c.elem1) # 0 /\ Len(c.elem2) = 0 /\ Len(c.elem3) = 0}

NextPage ==
  \/ \E c \in TokenTargets : SentencesClick(c)
  \/ QueryClear
  \/ NextModify

SpecPage == InitPage /\ [][NextPage]_vars

----------------------------------------------------------------------------
(* Properties of the selection interval (SpecTokens) *)

\* The last event was a click that hit a token.
TokenClicked == last.op = "click" /\ Len(last.elem1) # 0

\* C1: after loading from the stored fields, reversed or not, and after any
\* token clicks and query clears, the interval is empty or a pair with
\* start <= end.
C1_IntervalOrdered ==
  \/ tokenRange = <<>>
  \/ Len(tokenRange) = 2 /\ tokenRange[1] <= tokenRange[2]

\* A page loaded from reversed stored bounds, which tokenInit swapped.
C1_Witness ==
  /\ last.op = "load"
  /\ tokenStart # <<>> /\ tokenEnd # <<>>
  /\ ParseInt(tokenStart) > ParseInt(tokenEnd)
  /\ tokenRange = <<ParseInt(tokenEnd), ParseInt(tokenStart)>>

\* C2: a click more than 5 tokens outside a non-empty interval replaces the
\* interval by [t,t]; with no interval any click t gives [t,t].
C2_FarOrFirstClickResets ==
  TokenClicked =>
    LET t == last.elem1[1]
        b == last.before
    IN  /\ b = <<>> => tokenRange = <<t, t>>
        /\ (Len(b) = 2 /\ (t < b[1] - 5 \/ t > b[2] + 5)) => tokenRange = <<t, t>>

\* A far click beyond the end of a selection of several tokens.
C2_Witness ==
  /\ TokenClicked
  /\ Len(last.before) = 2
  /\ last.before[1] < last.before[2]
  /\ last.elem1[1] > last.before[2] + 5
  /\ tokenRange = <<last.elem1[1], last.elem1[1]>>

\* C3: a click strictly inside the interval moves the closer boundary: the end
\* when e - t <= t - s (ties included), the start otherwise.
C3_InteriorMovesCloser ==
  TokenClicked =>
    LET t == last.elem1[1]
        b == last.before
    IN  (Len(b) = 2 /\ b[1] < t /\ t < b[2]) =>
          tokenRange = IF b[2] - t <= t - b[1] THEN <<b[1], t>> ELSE <<t, b[2]>>

\* An interior click at equal distance from both boundaries: the end moved.
C3_Witness ==
  /\ TokenClicked
  /\ Len(last.before) = 2
  /\ last.before[1] < last.elem1[1] /\ last.elem1[1] < last.before[2]
  /\ last.before[2] - last.elem1[1] = last.elem1[1] - last.before[1]
  /\ tokenRange = <<last.before[1], last.elem1[1]>>

\* C4: a click that is not far (s-5 <= t <= e+5) extends the start to t when
\* t <= s and otherwise extends the end to t when t >= e; a click exactly 5
\* tokens outside a boundary extends.
C4_NearClickExtends ==
  TokenClicked =>
    LET t == last.elem1[1]
        b == last.before
    IN  (Len(b) = 2 /\ b[1] - 5 <= t /\ t <= b[2] + 5) =>
          /\ t <= b[1] => tokenRange = <<t, b[2]>>
          /\ (t > b[1] /\ t >= b[2]) => tokenRange = <<b[1], t>>

\* A click exactly 5 tokens before the start: the start moved there.
C4_Witness ==
  /\ TokenClicked
  /\ Len(last.before) = 2
  /\ last.elem1[1] = last.before[1] - 5
  /\ tokenRange = <<last.elem1[1], last.before[2]>>

\* C5: a click on a boundary token leaves the interval unchanged, and a click
\* on the token clicked just before leaves the interval as the first click
\* left it.
C5_BoundaryFixedAndIdempotent ==
  [][(last'.op = "click" /\ Len(last'.elem1) # 0) =>
       LET t == last'.elem1[1]
       IN  /\ (Len(tokenRange) = 2 /\ t \in {tokenRange[1], tokenRange[2]}) =>
                tokenRange' = tokenRange
           /\ (TokenClicked /\ last.elem1 = last'.elem1) =>
                tokenRange' = tokenRange]_vars

\* A click on the end token of a selection of several tokens: the interval
\* stayed.
C5_Witness ==
  /\ TokenClicked
  /\ Len(last.before) = 2
  /\ last.before[1] < last.before[2]
  /\ last.elem1[1] = last.before[2]
  /\ tokenRange = last.before

C13_ClearKeepsScope ==
  [][last'.op = "queryClear" =>
       /\ tokenRange' = <<>>
       /\ tokenStart' = <<>> /\ tokenEnd' = <<>>
       /\ activeEntity' = ""
       /\ endSt' = endSt
       /\ scopeShown' = scopeShown]_vars

\* The query was cleared while tokens were selected, an entity was active and
\* an end token was marked included: the mark and its count are still there.
C13_Witness ==
  /\ last.op = "queryClear"
  /\ Len(last.before) = 2
  /\ last.entity \in EntityNames
  /\ tokenRange = <<>> /\ tokenStart = <<>> /\ tokenEnd = <<>>
  /\ activeEntity = ""
  /\ \E te \in EndTokens : endSt[te] = "v"
  /\ ParseInt(scopeShown.selectAll.n) >= 1

----------------------------------------------------------------------------
(* Properties of the scope marks (SpecTokens) *)

\* The last event changed scope marks: a click that hit an end token, select
\* all or select none.
ScopeMutated ==
  \/ last.op = "click" /\ Len(last.elem2) # 0
  \/ last.op \in {"selectAll", "selectNone"}

\* The numbers of end tokens the marks make included and excluded.
IncludedCount(marks) == Cardinality({te \in EndTokens : marks[te] = "v"})

ExcludedCount(marks) == Cardinality({te \in EndTokens : marks[te] \in {"x", ""}})

\* C14: after every scope mutation the displayed counts equal the current
\* marks: included = number of end tokens marked included, excluded = number
\* marked excluded or unset, and their sum is the number of end tokens; a
\* toggle changes the mark of the toggled token only (included to excluded,
\* excluded or unset to included), select all leaves excluded = 0 and select
\* none leaves included = 0.
C14_CountsFollowMarks ==
  /\ [](ScopeMutated =>
          LET included == IncludedCount(endSt)
              excluded == ExcludedCount(endSt)
          IN  /\ scopeShown.selectAll.n = ToStr(included)
              /\ scopeShown.selectNone.n = ToStr(excluded)
              /\ included + excluded = NEndTokens
              /\ last.op = "selectAll" => scopeShown.selectNone.n = ToStr(0)
              /\ last.op = "selectNone" => scopeShown.selectAll.n = ToStr(0))
  /\ [][(last'.op = "click" /\ Len(last'.elem2) # 0) =>
          \A te \in EndTokens :
            endSt'[te] = IF te # last'.elem2[1] THEN endSt[te]
                         ELSE IF endSt[te] = "v" THEN "x" ELSE "v"]_vars

\* A toggle excluded an end token that was included while another end token
\* is still unset: both are counted as excluded.
C14_Witness ==
  /\ last.op = "click" /\ Len(last.elem2) # 0
  /\ endSt[last.elem2[1]] = "x"
  /\ \E te \in EndTokens : endSt[te] = ""
  /\ ParseInt(scopeShown.selectNone.n) = ExcludedCount(endSt)
  /\ ParseInt(scopeShown.selectNone.n) >= 2

\* C20: at form submission the excluded-end-token list written to the form
\* holds exactly the end tokens the scope counts treat as excluded, so its
\* length is the excluded count on display.
C20_SubmittedExcludedMatchCounts ==
  submitted =>
    /\ {excludedTokens[n] : n \in 1..Len(excludedTokens)}
         = {ToStr(te) : te \in {x \in EndTokens : endSt[x] \in {"x", ""}}}
    /\ Len(excludedTokens) = ParseInt(scopeShown.selectNone.n)

----------------------------------------------------------------------------
(* Properties of the staging of feature values (SpecModify) *)

\* Feature feat has a staged addition / a staged deletion.
HasAddition(feat) ==
  \/ \E i \in SpanIdx : spanSt[feat][i] = "plus"
  \/ inpSt[feat] = "plus"

HasDeletion(feat) == \E i \in SpanIdx : spanSt[feat][i] = "minus"

\* The outcome the diff rules give for the staged states.
ExpectedOutcome ==
  LET anyAdd == \E f \in Feats : HasAddition(f)
      anyDel == \E f \in Feats : HasDeletion(f)
  IN  IF ~anyAdd /\ ~anyDel THEN "NoOp"
      ELSE IF anyAdd /\ \E f \in Feats : ~HasAddition(f) THEN "Invalid"
      ELSE IF anyAdd /\ anyDel THEN "Replace"
      ELSE IF anyAdd THEN "Add"
      ELSE "Delete"

\* The outcome read off what makeGoData returns and writes on the submit control.
OutcomeOf(made) ==
  IF made.result.kind = "empty" /\ made.go.html = "nothing to do" THEN "NoOp"
  ELSE IF made.result.kind = "report" /\ made.go.html = "cannot add" THEN "Invalid"
  ELSE IF made.result.kind = "data" /\ made.go.html = "delete and add" THEN "Replace"
  ELSE IF made.result.kind = "data" /\ made.go.html = "add" THEN "Add"
  ELSE IF made.result.kind = "data" /\ made.go.html = "delete" THEN "Delete"
  ELSE "other"

OutcomeLabel(outcome) ==
  CASE outcome = "NoOp" -> "nothing to do"
    [] outcome = "Invalid" -> "cannot add"
    [] outcome = "Replace" -> "delete and add"
    [] outcome = "Add" -> "add"
    [] outcome = "Delete" -> "delete"

\* C6: for every staged assignment makeGoData yields NoOp without additions
\* and deletions, Invalid when some but not all features have an addition
\* (deletions or not), and otherwise Replace, Add or Delete; the handlers that
\* run it leave that outcome on the submit control.
C6_DiffOutcome ==
  /\ OutcomeOf(makeGoData(spanSt, inpSt, inpVal, go)) = ExpectedOutcome
  /\ last.op \in {"load", "control", "keyup", "inputClick", "go"} =>
       go.html = OutcomeLabel(ExpectedOutcome)

\* A partial addition next to a staged deletion: Invalid.
C6_Witness ==
  /\ last.op \in {"control", "keyup", "inputClick"}
  /\ \E f \in Feats : HasDeletion(f)
  /\ \E f \in Feats : HasAddition(f)
  /\ \E f \in Feats : ~HasAddition(f)
  /\ go.html = "cannot add"

\* The names of the features without a staged addition, in feature order.
MissingFeatures == SelectSeq(features, LAMBDA f : ~HasAddition(f))

\* C7: when makeGoData yields Invalid, its report names exactly the features
\* that have no staged addition (stated for the pages whose candidate values
\* all start Unset, where a staging change is what makes the outcome Invalid).
C7_InvalidNamesMissing ==
  LET made == makeGoData(spanSt, inpSt, inpVal, go)
  IN  (/\ \A f \in Feats : \A i \in SpanIdx : spanOrigSt[f][i] = "x"
       /\ made.result.kind = "report") =>
        made.result.report = ReportHead \o join(MissingFeatures, " and ")

\* The next state of the toggle cycle of a candidate value.
CycleNext(occ, st) ==
  IF occ = "x"
  THEN (IF st = "x" THEN "plus" ELSE "x")
  ELSE (IF st = "x" THEN "plus" ELSE IF st = "plus" THEN "minus" ELSE "x")

\* C8: a toggle moves the value one step along its cycle (Unset, MarkedAdd,
\* MarkedDelete, Unset when it occurs; Unset, MarkedAdd, Unset when it does
\* not), three resp. two toggles return to the start, and no other value or
\* free-text entry changes state.
C8_ToggleCycles ==
  [][last'.op = "control" =>
       \A feat \in Feats : \A i \in SpanIdx :
         ControlClick(feat, i) =>
           /\ spanSt'[feat][i] = CycleNext(occurs[feat][i], spanSt[feat][i])
           /\ IF occurs[feat][i] = "x"
              THEN newStatus("x", spanSt'[feat][i]) = spanSt[feat][i]
              ELSE newStatus(occurs[feat][i],
                             newStatus(occurs[feat][i], spanSt'[feat][i]))
                     = spanSt[feat][i]
           /\ \A f \in Feats : \A j \in SpanIdx :
                <<f, j>> # <<feat, i>> => spanSt'[f][j] = spanSt[f][j]
           /\ inpSt' = inpSt /\ inpVal' = inpVal]_vars

\* Two toggles took an occurring value from Unset to MarkedDelete.
C8_Witness ==
  /\ last.op = "control"
  /\ \A f \in Feats : \A i \in SpanIdx : spanOrigSt[f][i] = "x"
  /\ \E f \in Feats : \E i \in SpanIdx : occurs[f][i] = "v" /\ spanSt[f][i] = "minus"

\* C9: a candidate value that does not occur is never MarkedDelete, whatever
\* toggles and resets are applied, and is in no deletions list.
C9_NoDeleteWithoutOccurs ==
  \A k \in 1..NFeat : \A i \in SpanIdx :
    occurs[features[k]][i] = "x" =>
      /\ spanSt[features[k]][i] # "minus"
      /\ \A n \in 1..Len(collect(spanSt, inpSt, inpVal).deletions[k]) :
           collect(spanSt, inpSt, inpVal).deletions[k][n] # spanVal(i)

\* A toggle took a value that does not occur from MarkedAdd, its original
\* state, back to Unset, while every other value and input is as loaded.
C9_Witness ==
  /\ last.op = "control"
  /\ \E f \in Feats : \E i \in SpanIdx :
       /\ occurs[f][i] = "x" /\ spanOrigSt[f][i] = "plus" /\ spanSt[f][i] = "x"
       /\ \A g \in Feats \ {f} : spanSt[g] = spanOrigSt[g]
  /\ inpSt = inpOrigSt /\ inpVal = inpOrigVal

\* C10: a keyup on a free-text input leaves it Unset when its text is empty
\* and MarkedAdd otherwise, a second keyup on it with the same text leaves the
\* state as it is, and no event gives an input a delete state.
C10_FreeTextState ==
  [][/\ last'.op = "keyup" =>
          \A text \in Texts :
            InputKeyup(last'.feat, text) =>
              inpSt'[last'.feat] = IF text = "" THEN "x" ELSE "plus"
     /\ (last.op = "keyup" /\ last'.op = "keyup" /\ last'.feat = last.feat
           /\ inpVal' = inpVal) => inpSt' = inpSt
     /\ \A f \in Feats : inpSt'[f] \in {"x", "plus"}]_vars

\* A keyup left a text that is not empty in an input whose original text is
\* empty: the input is MarkedAdd.
C10_Witness ==
  /\ last.op = "keyup"
  /\ inpOrigVal[last.feat] = ""
  /\ inpVal[last.feat] = "t"
  /\ inpSt[last.feat] = "plus"

\* C15: reset on one feature widget restores every candidate value of that
\* feature to its original state and its free-text entry to its original state
\* and original text, and leaves the states and texts of all other features
\* unchanged.
C15_ResetRestoresWidget ==
  [][last'.op = "reset" =>
       LET feat == last'.feat
       IN  /\ spanSt'[feat] = spanOrigSt[feat]
           /\ inpSt'[feat] = inpOrigSt[feat]
           /\ inpVal'[feat] = inpOrigVal[feat]
           /\ \A g \in Feats \ {feat} :
                /\ spanSt'[g] = spanSt[g]
                /\ inpSt'[g] = inpSt[g]
                /\ inpVal'[g] = inpVal[g]]_vars

\* A reset of a widget with a staged change, while the value and the input of
\* another widget stay staged.
C15_Witness ==
  /\ last.op = "reset"
  /\ last.changed
  /\ AtOriginal(last.feat)
  /\ \E g \in Feats \ {last.feat} :
       /\ spanSt[g] # spanOrigSt[g]
       /\ inpSt[g] # inpOrigSt[g]
       /\ inpVal[g] # inpOrigVal[g]

\* Every widget holds what the page gave it.
AllOriginal == \A f \in Feats : AtOriginal(f)

\* The outcome the diff rules give for the original states of the page.
OriginalOutcome ==
  LET add(f) == (\E i \in SpanIdx : spanOrigSt[f][i] = "plus") \/ inpOrigSt[f] = "plus"
      del(f) == \E i \in SpanIdx : spanOrigSt[f][i] = "minus"
      anyAdd == \E f \in Feats : add(f)
      anyDel == \E f \in Feats : del(f)
  IN  IF ~anyAdd /\ ~anyDel THEN "NoOp"
      ELSE IF anyAdd /\ \E f \in Feats : ~add(f) THEN "Invalid"
      ELSE IF anyAdd /\ anyDel THEN "Replace"
      ELSE IF anyAdd THEN "Add"
      ELSE "Delete"

\* Every original state of the page is Unset.
OriginalsUnset ==
  /\ \A f \in Feats : \A i \in SpanIdx : spanOrigSt[f][i] = "x"
  /\ \A f \in Feats : inpOrigSt[f] = "x"

\* The statement that makeGoData, run right after a reset that leaves every
\* widget at its original, yields NoOp.
C16_ResetThenComputeNoOp ==
  (last.op = "reset" /\ AllOriginal) =>
    OutcomeOf(makeGoData(spanSt, inpSt, inpVal, go)) = "NoOp"

\* C16: a reset of a widget while every other widget holds its original leaves
\* every widget at its original, and makeGoData run right after it yields the
\* outcome of the original states: NoOp when every original state is Unset,
\* and the Add, Delete, Replace or Invalid of the original states otherwise.
C16_ResetThenComputeOriginal ==
  [][(last'.op = "reset" /\ \A g \in Feats \ {last'.feat} : AtOriginal(g)) =>
       /\ AllOriginal'
       /\ OutcomeOf(makeGoData(spanSt', inpSt', inpVal', go')) = OriginalOutcome
       /\ OriginalsUnset =>
            OutcomeOf(makeGoData(spanSt', inpSt', inpVal', go')) = "NoOp"]_vars

\* A reset undid a staged change on a page whose original states hold a
\* MarkedAdd: every widget is at its original and the outcome is not NoOp.
C16_Witness ==
  /\ last.op = "reset"
  /\ last.changed
  /\ AllOriginal
  /\ \E f \in Feats : \E i \in SpanIdx : spanOrigSt[f][i] = "plus"
  /\ OutcomeOf(makeGoData(spanSt, inpSt, inpVal, go)) = OriginalOutcome
  /\ OriginalOutcome # "NoOp"

\* C17: after every staging change (toggle of a value, keyup or click on a
\* free-text input, reset of a widget) the submit control is disabled and
\* labelled as the diff outcome of the current staged states has it (stated
\* for the pages whose original states are all Unset).
C17_GoFollowsStaging ==
  (OriginalsUnset /\ last.op \in {"control", "keyup", "inputClick", "reset"}) =>
    /\ go.html = OutcomeLabel(ExpectedOutcome)
    /\ ("disabled" \in go.cls) <=> (ExpectedOutcome \in {"NoOp", "Invalid"})

\* The action class of an outcome, none for NoOp and Invalid.
OutcomeClasses(outcome) ==
  CASE outcome = "Add" -> {"add"}
    [] outcome = "Delete" -> {"del"}
    [] outcome = "Replace" -> {"repl"}
    [] OTHER -> {}

\* C19: after staging changes the submit control carries at most one of the
\* classes add, del, repl, and exactly the one of the current diff outcome
\* (stated for the pages whose original states are all Unset and for the
\* states that a handler which runs makeGoData leaves).
C19_OneActionClass ==
  (OriginalsUnset /\ last.op \in {"control", "keyup", "inputClick"}) =>
    /\ Cardinality(go.cls \cap {"add", "del", "repl"}) <= 1
    /\ go.cls \cap {"add", "del", "repl"} = OutcomeClasses(ExpectedOutcome)

----------------------------------------------------------------------------
(* Properties of selection and staging together (SpecPage) *)

\* C12: after a token click that changes the selection and after clearing the
\* query, every candidate value and every free-text input is back at its reset
\* state, so that nothing staged before survives the change of selection.
C12_SelectionResetsStaging ==
  (\/ TokenClicked /\ tokenRange # last.before
   \/ last.op = "queryClear") =>
    \A f \in Feats : AtOriginal(f)

----------------------------------------------------------------------------
(* Properties of the annotation set controls (SpecAnnoSet) *)

\* C18: when the user cancels the name prompt of new, duplicate or rename, or
\* the confirmation of delete, nothing is mutated: no annotation set field is
\* written and the stored form is not rewritten.
C18_CancelMutatesNothing ==
  [][(last'.op \in {"aNew", "aDup", "aRename", "aDelete"} /\ last'.cancelled) =>
       /\ UNCHANGED <<annoseth, duannoseth, rannoseth, dannoseth>>
       /\ UNCHANGED formStore
       /\ UNCHANGED <<selVars, modVars, excludedTokens, submitted>>]_vars

====
